---- MODULE Spec2Model ----
(***************************************************************************)
(* Model of the before-period carry-forward and the rate derivation of    *)
(* the holistic data processing service:                                  *)
(*   src/data_processor/src/dateutil.py            (period gap classifier) *)
(*   src/data_processing/processor_app/active_therapist.py (carry-forward) *)
(*   src/data_processing/processor_app/rate.py     (rate derivation)       *)
(*                                                                         *)
(* Dates are records [year, month, day]; rates are integers in hundredths  *)
(* (round(x, 2) = r / 100).                                                *)
(***************************************************************************)
EXTENDS Integers, Sequences, FiniteSets, TLC

VARIABLES
    pc,               \* position of the run
    scope,            \* "org" (by-org processors) or "nd" (by-app processors)
    period_type,      \* "weekly" | "monthly" | "yearly"
    file,             \* rows of the active-ther aggregate file (input)
    input_rate_csv,   \* lines of the input-rate CSV written by the carry-forward stage
    output_rate,      \* rows of the rate table
    previous,         \* argument of the gap classifiers
    current,          \* argument of the gap classifiers
    diff,             \* results of the three gap classifiers
    before,           \* argument active_ther_b_period of the rate functions
    within,           \* argument active_ther_w_period of the rate functions
    rate,             \* results of the two rate functions
    argument,         \* the dataframe handed to set_total_thers_before_period, after the call
    org_rate_csv,     \* lines of the per-org rate input written by the shift-based revision
    interaction,      \* rows of the interaction table collected from the backend
    num_thers_per_org,\* rows of the per-organization therapist aggregate file
    exported,         \* dataframes and CSV files of the interaction run
    therapist,        \* rows of the therapist table collected from the backend
    therapist_input,  \* outcome of the therapist run
    cleaner,          \* the data cleaner: mode, backend table, file on disk
    download,         \* a streamed download: previous file, response, file
    sync,             \* a sync-back of NiceDay totals: file read, payload upserted
    operation,        \* a backend operation object: _ddf, file on disk, last read
    client            \* a BackendAPIClient construction: token file, requests made

batchVars == << scope, period_type, file, input_rate_csv, output_rate,
                previous, current, diff, before, within, rate, argument,
                org_rate_csv >>

processorVars == << interaction, num_thers_per_org, exported,
                    therapist, therapist_input >>

ioVars == << cleaner, download >>

clientVars == << sync, operation, client >>

vars == << pc, scope, period_type, file, input_rate_csv, output_rate,
           previous, current, diff, before, within, rate, argument, org_rate_csv,
           interaction, num_thers_per_org, exported, therapist, therapist_input,
           cleaner, download, sync, operation, client >>

----------------------------------------------------------------------------
(* Bounds *)

MaxRows == 3        \* rows in an aggregate file
YearSpan == 1       \* the classifier's dates lie in the years 2023 .. 2023 + YearSpan
MaxCount == 40      \* counts handed to the rate functions lie in 0 .. MaxCount
MaxInteractions == 4 \* rows in the interaction table
MaxTherapists == 3  \* rows in the therapist table
MaxDataRows == 2    \* data rows in the cleaner's interaction file
MaxChunks == 3      \* chunks of a streamed response
MaxCalls == 3       \* calls made on a backend operation object
MaxClients == 2     \* BackendAPIClient objects constructed in a run

NA == 0 - 1         \* pandas <NA> in an Int64 column

NoDate == [year |-> 0, month |-> 0, day |-> 0]
NoDiff == [week |-> FALSE, month |-> FALSE, year |-> FALSE]
NoRate == [churn_rate |-> 0, retention_rate |-> 0, raised |-> FALSE]
NoExport == [with_org |-> << >>]
NoInput == [raised |-> FALSE]
NoCleaner == [DEV_MODE |-> TRUE]
NoDownload == [written |-> 0]
Missing == << "missing" >>
NoSync == [payload |-> << >>]
NoOperation == [calls |-> 0]
NoClient == [requests |-> << >>]

----------------------------------------------------------------------------
(* Calendar arithmetic of datetime / calendar, as relativedelta uses it *)

Date(y, m, d) == [year |-> y, month |-> m, day |-> d]

IsLeap(y) == (y % 4 = 0) /\ ((y % 100 # 0) \/ (y % 400 = 0))

\* calendar.monthrange(year, month)[1]
MonthRange(y, m) ==
    IF m = 2 THEN (IF IsLeap(y) THEN 29 ELSE 28)
    ELSE IF m \in {4, 6, 9, 11} THEN 30 ELSE 31

RECURSIVE DaysBeforeMonth(_, _)
DaysBeforeMonth(y, m) ==
    IF m = 1 THEN 0 ELSE DaysBeforeMonth(y, m - 1) + MonthRange(y, m - 1)

DaysBeforeYear(y) ==
    365 * (y - 1) + ((y - 1) \div 4) - ((y - 1) \div 100) + ((y - 1) \div 400)

\* date.toordinal()
ToOrdinal(dt) == DaysBeforeYear(dt.year) + DaysBeforeMonth(dt.year, dt.month) + dt.day

\* dt1 < dt2 on datetimes
DateLT(dt1, dt2) == ToOrdinal(dt1) < ToOrdinal(dt2)

Min(a, b) == IF a < b THEN a ELSE b
Abs(a) == IF a < 0 THEN 0 - a ELSE a
Sign(a) == IF a < 0 THEN 0 - 1 ELSE 1

\* relativedelta._set_months: months beyond 11 are carried into years
SetMonths(months) ==
    IF Abs(months) > 11
    THEN [years  |-> ((months * Sign(months)) \div 12) * Sign(months),
          months |-> ((months * Sign(months)) % 12) * Sign(months)]
    ELSE [years |-> 0, months |-> months]

\* relativedelta.__radd__ with years and months only: the day is clipped
\* to the length of the target month
AddDelta(dt, rd) ==
    LET y0 == dt.year + rd.years
        m0 == dt.month + rd.months
        y  == IF m0 > 12 THEN y0 + 1 ELSE IF m0 < 1 THEN y0 - 1 ELSE y0
        m  == IF m0 > 12 THEN m0 - 12 ELSE IF m0 < 1 THEN m0 + 12 ELSE m0
    IN Date(y, m, Min(MonthRange(y, m), dt.day))

\* relativedelta(dt1, dt2): the months are stepped back (forward when
\* dt1 < dt2) while dt2 + months overshoots dt1; the rest is days
RECURSIVE Adjust(_, _, _)
Adjust(dt1, dt2, months) ==
    LET rd  == SetMonths(months)
        dtm == AddDelta(dt2, rd)
        overshot == IF DateLT(dt1, dt2) THEN DateLT(dtm, dt1) ELSE DateLT(dt1, dtm)
        increment == IF DateLT(dt1, dt2) THEN 1 ELSE 0 - 1
    IN IF overshot
       THEN Adjust(dt1, dt2, months + increment)
       ELSE [years |-> rd.years, months |-> rd.months,
             days |-> ToOrdinal(dt1) - ToOrdinal(dtm)]

RelativeDelta(dt1, dt2) ==
    Adjust(dt1, dt2, (dt1.year - dt2.year) * 12 + (dt1.month - dt2.month))

----------------------------------------------------------------------------
(* Period gap classifier: dateutil.py *)

\* is_one_week_diff with its two arguments taken in the other order
is_one_week_diff_swapped(prev, cur) ==
    IF DateLT(prev, cur) THEN FALSE
    ELSE RelativeDelta(prev, cur).days = 7

is_one_week_diff(prev, cur) ==
    IF DateLT(cur, prev) THEN FALSE
    ELSE RelativeDelta(cur, prev).days = 7

is_one_month_diff(prev, cur) ==
    IF DateLT(cur, prev) THEN FALSE
    ELSE RelativeDelta(cur, prev).months = 1

is_one_year_diff(prev, cur) ==
    IF DateLT(cur, prev) THEN FALSE
    ELSE RelativeDelta(cur, prev).years = 1

----------------------------------------------------------------------------
(* Rate derivation: rate.py, ActiveTherapistRate *)

\* num / den cut off after two decimals instead of rounded
Round2_truncated(num, den) == (100 * num * Sign(den)) \div Abs(den)

\* number of binary digits of a non-negative integer
RECURSIVE BitLength(_)
BitLength(n) == IF n = 0 THEN 0 ELSE 1 + BitLength(n \div 2)

\* the float nearest to a quotient, compared with the quotient: the binary
\* expansion is developed from the remainder r over d until 53 significant
\* digits are out (sig counts them, last is the latest); the rest decides
\* whether the float lies above (1), below (-1) or on (0) the quotient
RECURSIVE FloatError(_, _, _, _)
FloatError(r, d, sig, last) ==
    IF r = 0 THEN 0
    ELSE IF sig = 53
         THEN IF 2 * r > d THEN 1
              ELSE IF 2 * r < d THEN 0 - 1
              ELSE IF last = 1 THEN 1 ELSE 0 - 1
         ELSE LET bit == IF 2 * r >= d THEN 1 ELSE 0
              IN FloatError(2 * r - d * bit, d,
                            IF sig > 0 \/ bit = 1 THEN sig + 1 ELSE 0, bit)

\* round(num / den, 2) in hundredths.  The division gives the float nearest
\* to the quotient and round() the hundredth nearest to that float.  A
\* quotient that is not halfway between two hundredths is much further from
\* the halfway points than from its float.  For a quotient halfway between
\* two hundredths the float decides: above or below the quotient, the
\* hundredth on that side; on the quotient (an odd multiple of 1/8), the
\* even hundredth.
Round2(num, den) ==
    LET n == 100 * Abs(num)
        d == Abs(den)
        q == n \div d
        r == n - q * d
        e == FloatError(Abs(num) % d, d, BitLength(Abs(num) \div d),
                        (Abs(num) \div d) % 2)
        magnitude == IF 2 * r < d THEN q
                     ELSE IF 2 * r > d THEN q + 1
                     ELSE IF e > 0 THEN q + 1
                     ELSE IF e < 0 THEN q
                     ELSE IF q % 2 = 0 THEN q ELSE q + 1
    IN Sign(num) * Sign(den) * magnitude

\* a / b: a value, or ZeroDivisionError
TrueDiv(a, b) ==
    IF b = 0 THEN [raised |-> TRUE, value |-> 0]
    ELSE [raised |-> FALSE, value |-> Round2(a, b)]

\* _get_churn_rate with the difference taken the other way round
_get_churn_rate_reversed(active_ther_b_period, active_ther_w_period) ==
    IF active_ther_b_period = 0 THEN [raised |-> FALSE, value |-> 0]
    ELSE TrueDiv(active_ther_w_period - active_ther_b_period, active_ther_b_period)

\* _get_churn_rate clamped at 0
_get_churn_rate_clamped(active_ther_b_period, active_ther_w_period) ==
    IF active_ther_b_period = 0 \/ active_ther_w_period > active_ther_b_period
    THEN [raised |-> FALSE, value |-> 0]
    ELSE TrueDiv(active_ther_b_period - active_ther_w_period, active_ther_b_period)

_get_churn_rate(active_ther_b_period, active_ther_w_period) ==
    IF active_ther_b_period = 0 THEN [raised |-> FALSE, value |-> 0]
    ELSE TrueDiv(active_ther_b_period - active_ther_w_period, active_ther_b_period)

\* _get_retention_rate without the test for a zero before-period count
_get_retention_rate_unguarded(active_ther_b_period, active_ther_w_period) ==
    TrueDiv(active_ther_w_period, active_ther_b_period)

_get_retention_rate(active_ther_b_period, active_ther_w_period) ==
    IF active_ther_b_period = 0 THEN [raised |-> FALSE, value |-> 0]
    ELSE TrueDiv(active_ther_w_period, active_ther_b_period)

----------------------------------------------------------------------------
(* Loading an aggregate file: _process_data, steps 1 to 4 *)

Range(s) == { s[i] : i \in DOMAIN s }

\* dt + relativedelta(month=m, day=d): absolute fields replace the date's,
\* the day is clipped to the length of the month (0: field not given)
AddAbsolute(dt, m, d) ==
    LET month == IF m = 0 THEN dt.month ELSE m
        day   == IF d = 0 THEN dt.day ELSE d
    IN Date(dt.year, month, Min(MonthRange(dt.year, month), day))

\* period_start of a row of the file: the part before '/' of a weekly key,
\* key + '-01' of a monthly key, key + '-01-01' of a yearly key
PeriodStart(period, pt) ==
    IF pt = "weekly" THEN period.start
    ELSE IF pt = "monthly" THEN Date(period.year, period.month, 1)
    ELSE Date(period.year, 1, 1)

\* period_end: the part after '/' of a weekly key; _generate_date_period
PeriodEnd(period, pt) ==
    IF pt = "weekly" THEN period.end
    ELSE IF pt = "monthly" THEN AddAbsolute(PeriodStart(period, pt), 0, 31)
    ELSE AddAbsolute(PeriodStart(period, pt), 12, 31)

OrgColumns == << "period_start", "period_end", "organization_id",
                 "active_ther", "inactive_ther", "total_ther",
                 "active_ther_b_period", "inactive_ther_b_period" >>

NDColumns == << "period_start", "period_end",
                "active_ther", "inactive_ther", "total_ther",
                "active_ther_b_period", "inactive_ther_b_period" >>

\* steps 2 and 3: period_start / period_end replace the period column
GenerateDatePeriod(row, pt) ==
    [ c \in (DOMAIN row \ {"period"}) \cup {"period_start", "period_end"} |->
        IF c = "period_start" THEN PeriodStart(row.period, pt)
        ELSE IF c = "period_end" THEN PeriodEnd(row.period, pt)
        ELSE row[c] ]

\* (period_start, period_end) of a before (period_start, period_end) of b
KeyLT(a, b) ==
    \/ DateLT(a.period_start, b.period_start)
    \/ /\ a.period_start = b.period_start
       /\ DateLT(a.period_end, b.period_end)

\* insert a row behind every row whose key is not greater
RECURSIVE Insert(_, _)
Insert(sorted, row) ==
    IF sorted = << >> THEN << row >>
    ELSE IF KeyLT(row, sorted[Len(sorted)])
         THEN Append(Insert(SubSeq(sorted, 1, Len(sorted) - 1), row), sorted[Len(sorted)])
         ELSE Append(sorted, row)

\* the dataframe left in file order
SortValues_unsorted(df) == df

\* step 4: sort_values(by=['period_start', 'period_end']).reset_index(drop=True)
RECURSIVE SortValues(_)
SortValues(df) ==
    IF df = << >> THEN << >>
    ELSE Insert(SortValues(SubSeq(df, 1, Len(df) - 1)), df[Len(df)])

LoadDataframe(f, pt) ==
    SortValues([ i \in DOMAIN f |-> GenerateDatePeriod(f[i], pt) ])

----------------------------------------------------------------------------
(* Before-period carry-forward per organization: OrgActiveTherProcessor *)

\* the classifier _set_value_before_period consults for a period type;
\* any other period type falls through to _set_with_zero
OneUnitDiff(pt, prev_period_end, current_period_end) ==
    IF pt = "weekly" THEN is_one_week_diff(prev_period_end, current_period_end)
    ELSE IF pt = "monthly" THEN is_one_month_diff(prev_period_end, current_period_end)
    ELSE IF pt = "yearly" THEN is_one_year_diff(prev_period_end, current_period_end)
    ELSE FALSE

\* rows are numbered from 1 here, from 0 in the dataframe
_set_with_zero(index, dataframe) ==
    [dataframe EXCEPT ![index] =
        [@ EXCEPT !.active_ther_b_period = 0, !.inactive_ther_b_period = 0]]

\* _set_with_prev_row adding the previous counts to what the columns hold
_set_with_prev_row_added(index, dataframe) ==
    [dataframe EXCEPT ![index] =
        [@ EXCEPT !.active_ther_b_period = @ + dataframe[index - 1].active_ther,
                  !.inactive_ther_b_period = @ + dataframe[index - 1].inactive_ther]]

\* _set_with_prev_row reading the first row instead of the previous one
_set_with_prev_row_first(index, dataframe) ==
    [dataframe EXCEPT ![index] =
        [@ EXCEPT !.active_ther_b_period = dataframe[1].active_ther,
                  !.inactive_ther_b_period = dataframe[1].inactive_ther]]

_set_with_prev_row(index, dataframe) ==
    LET prev_active_ther   == dataframe[index - 1].active_ther
        prev_inactive_ther == dataframe[index - 1].inactive_ther
    IN [dataframe EXCEPT ![index] =
          [@ EXCEPT !.active_ther_b_period = prev_active_ther,
                    !.inactive_ther_b_period = prev_inactive_ther]]

\* one turn of the loop of _set_value_before_period
SetRow(index, dataframe, pt) ==
    IF index = 1 THEN _set_with_zero(index, dataframe)
    ELSE IF OneUnitDiff(pt, dataframe[index - 1].period_end, dataframe[index].period_end)
         THEN _set_with_prev_row(index, dataframe)
         ELSE _set_with_zero(index, dataframe)

RECURSIVE SetRowsFrom(_, _, _)
SetRowsFrom(index, dataframe, pt) ==
    IF index > Len(dataframe) THEN dataframe
    ELSE SetRowsFrom(index + 1, SetRow(index, dataframe, pt), pt)

_set_value_before_period(dataframe, pt) == SetRowsFrom(1, dataframe, pt)

\* dataframe['organization_id'].drop_duplicates(): first occurrences, in order
RECURSIVE DropDuplicates(_)
DropDuplicates(ids) ==
    IF ids = << >> THEN << >>
    ELSE LET head == DropDuplicates(SubSeq(ids, 1, Len(ids) - 1))
             last == ids[Len(ids)]
         IN IF last \in Range(head) THEN head ELSE Append(head, last)

WithOrg(dataframe, org_id) ==
    SelectSeq(dataframe, LAMBDA row : row.organization_id = org_id)

\* _split_dataframe_per_org handing back the dataframe unsplit
_split_dataframe_per_org_unsplit(dataframe) == << dataframe >>

\* one re-indexed copy of the organization's rows per organization
_split_dataframe_per_org(dataframe) ==
    LET organization_ids ==
            DropDuplicates([ i \in DOMAIN dataframe |-> dataframe[i].organization_id ])
    IN [ k \in DOMAIN organization_ids |-> WithOrg(dataframe, organization_ids[k]) ]

\* pd.concat(dataframes)
RECURSIVE Concat(_)
Concat(dataframes) ==
    IF dataframes = << >> THEN << >>
    ELSE Concat(SubSeq(dataframes, 1, Len(dataframes) - 1)) \o dataframes[Len(dataframes)]

\* set_total_thers_before_period walking the whole dataframe as one series
Org_set_total_thers_before_period_whole(dataframe, pt) ==
    _set_value_before_period(dataframe, pt)

Org_set_total_thers_before_period(dataframe, pt) ==
    LET dataframes == _split_dataframe_per_org(dataframe)
    IN Concat([ k \in DOMAIN dataframes |-> _set_value_before_period(dataframes[k], pt) ])

----------------------------------------------------------------------------
(* Before-period carry-forward of the whole application: NDActiveTherProcessor *)

ND_set_with_zero(index, dataframe) ==
    [dataframe EXCEPT ![index] =
        [@ EXCEPT !.active_ther_b_period = 0, !.inactive_ther_b_period = 0]]

ND_set_with_prev_row(index, dataframe) ==
    LET prev_active_ther   == dataframe[index - 1].active_ther
        prev_inactive_ther == dataframe[index - 1].inactive_ther
    IN [dataframe EXCEPT ![index] =
          [@ EXCEPT !.active_ther_b_period = prev_active_ther,
                    !.inactive_ther_b_period = prev_inactive_ther]]

ND_SetRow(index, dataframe, pt) ==
    IF index = 1 THEN ND_set_with_zero(index, dataframe)
    ELSE IF OneUnitDiff(pt, dataframe[index - 1].period_end, dataframe[index].period_end)
         THEN ND_set_with_prev_row(index, dataframe)
         ELSE ND_set_with_zero(index, dataframe)

RECURSIVE ND_SetRowsFrom(_, _, _)
ND_SetRowsFrom(index, dataframe, pt) ==
    IF index > Len(dataframe) THEN dataframe
    ELSE ND_SetRowsFrom(index + 1, ND_SetRow(index, dataframe, pt), pt)

ND_set_total_thers_before_period(dataframe, pt) == ND_SetRowsFrom(1, dataframe, pt)

----------------------------------------------------------------------------
(* The CSV file between the two stages *)

\* dataframe[columns].to_csv(index=False, header=False)
ToCsv(dataframe, columns) ==
    [ i \in DOMAIN dataframe |-> [ j \in DOMAIN columns |-> dataframe[i][columns[j]] ] ]

IndexOf(names, c) == CHOOSE j \in DOMAIN names : names[j] = c

\* pd.read_csv(names=names): the j-th name takes the j-th field of a line,
\* a name beyond the line's fields takes <NA>
ReadCsv(lines, names) ==
    [ i \in DOMAIN lines |->
        [ c \in Range(names) |->
            IF IndexOf(names, c) <= Len(lines[i])
            THEN lines[i][IndexOf(names, c)] ELSE NA ] ]

\* the columns _process_data exports
ExportColumns(sc) == IF sc = "org" THEN OrgColumns ELSE NDColumns

\* the names _calculate reads the file with
RateNames(sc, pt) ==
    IF sc = "org" THEN OrgColumns
    ELSE IF pt = "weekly" THEN NDColumns
    ELSE OrgColumns

\* the dataframe set_total_thers_before_period returns for a file
Carried(f, sc, pt) ==
    IF sc = "org" THEN Org_set_total_thers_before_period(LoadDataframe(f, pt), pt)
    ELSE ND_set_total_thers_before_period(LoadDataframe(f, pt), pt)

\* the caller's dataframe object after set_total_thers_before_period has
\* returned: the per-organization method works on deep copies of its parts,
\* the app-level method assigns through dataframe.loc into the object it
\* was given and returns that object
ArgumentAfter(f, sc, pt) ==
    IF sc = "org" THEN LoadDataframe(f, pt)
    ELSE ND_set_total_thers_before_period(LoadDataframe(f, pt), pt)

\* the rate row _calculate derives from a row of the input-rate file
RateRow(row, sc) ==
    LET churn     == _get_churn_rate(row.active_ther_b_period, row.active_ther)
        retention == _get_retention_rate(row.active_ther_b_period, row.active_ther)
    IN [ c \in (IF sc = "org" THEN {"organization_id"} ELSE {})
               \cup {"period_start", "period_end", "churn_rate", "retention_rate", "raised"} |->
           IF c = "churn_rate" THEN churn.value
           ELSE IF c = "retention_rate" THEN retention.value
           ELSE IF c = "raised" THEN (churn.raised \/ retention.raised)
           ELSE row[c] ]

----------------------------------------------------------------------------
(* Inputs *)

PeriodTypes == {"weekly", "monthly", "yearly"}
Scopes == {"org", "nd"}

\* organization ids of the aggregate files
Orgs == {42, 7}

\* (active_ther, inactive_ther) of the rows of an aggregate file
CountPairs == << <<10, 2>>, <<12, 1>>, <<8, 5>> >>

\* weekly period keys 'start/end', in key order; the third is malformed
\* (its end precedes its start)
WeeklyPeriods ==
    << [start |-> Date(2023, 1, 1),  end |-> Date(2023, 1, 7)],
       [start |-> Date(2023, 1, 8),  end |-> Date(2023, 1, 14)],
       [start |-> Date(2023, 1, 15), end |-> Date(2023, 1, 7)],
       [start |-> Date(2023, 1, 22), end |-> Date(2023, 1, 28)],
       [start |-> Date(2023, 1, 29), end |-> Date(2023, 2, 4)],
       [start |-> Date(2023, 3, 5),  end |-> Date(2023, 3, 11)] >>

\* monthly period keys 'YYYY-MM'
MonthlyPeriods ==
    << [year |-> 2023, month |-> 1], [year |-> 2023, month |-> 2],
       [year |-> 2023, month |-> 4], [year |-> 2024, month |-> 2],
       [year |-> 2024, month |-> 3] >>

\* yearly period keys 'YYYY'
YearlyPeriods == << [year |-> 2023], [year |-> 2024], [year |-> 2025], [year |-> 2027] >>

Periods(pt) ==
    IF pt = "weekly" THEN WeeklyPeriods
    ELSE IF pt = "monthly" THEN MonthlyPeriods
    ELSE YearlyPeriods

Reverse(s) == [ i \in DOMAIN s |-> s[Len(s) + 1 - i] ]

\* a row of the aggregate file; the before-period columns are empty
FileRow(sc, period, org, counts) ==
    [ c \in (IF sc = "org" THEN {"organization_id"} ELSE {})
            \cup {"period", "active_ther", "inactive_ther", "total_ther",
                  "active_ther_b_period", "inactive_ther_b_period"} |->
        IF c = "period" THEN period
        ELSE IF c = "organization_id" THEN org
        ELSE IF c = "active_ther" THEN counts[1]
        ELSE IF c = "inactive_ther" THEN counts[2]
        ELSE IF c = "total_ther" THEN counts[1] + counts[2]
        ELSE NA ]

\* the days of a month the classifier is tried on
Days == {1, 7, 8, 14, 15, 28, 29, 30, 31}

Dates ==
    { Date(x[1], x[2], x[3]) :
        x \in { y \in (2023 .. 2023 + YearSpan) \X (1 .. 12) \X Days :
                  y[3] <= MonthRange(y[1], y[2]) } }

----------------------------------------------------------------------------
(* The batch run: ActiveTherapistProcessor, then TherapistRateProcessor *)

IdleClassifier == previous = NoDate /\ current = NoDate /\ diff = NoDiff
IdleRate == before = 0 /\ within = 0 /\ rate = NoRate
IdleRun == /\ scope = "org" /\ period_type = "weekly" /\ file = << >>
           /\ input_rate_csv = << >> /\ output_rate = << >>
           /\ argument = << >> /\ org_rate_csv = << >>
IdleInteraction == /\ interaction = << >> /\ num_thers_per_org = << >>
                   /\ exported = NoExport
IdleTherapist == therapist = << >> /\ therapist_input = NoInput
IdleCleaner == cleaner = NoCleaner
IdleDownload == download = NoDownload
IdleClients == sync = NoSync /\ operation = NoOperation /\ client = NoClient
IdleIO == IdleInteraction /\ IdleTherapist /\ IdleCleaner /\ IdleDownload

\* an aggregate file of 1 .. MaxRows rows is on disk, in key order or in
\* the reverse order
Init ==
    /\ pc = "loaded"
    /\ scope \in Scopes
    /\ period_type \in PeriodTypes
    /\ \E n \in 1 .. MaxRows :
         \E pf \in [1 .. n -> DOMAIN Periods(period_type)] :
           /\ \A i \in 1 .. n - 1 : pf[i] <= pf[i + 1]
           /\ \E of \in [1 .. n -> (IF scope = "org" THEN Orgs ELSE {0})] :
                \E k \in 0 .. 2 :
                  \E rev \in BOOLEAN :
                    LET rows == [ i \in 1 .. n |->
                                    FileRow(scope, Periods(period_type)[pf[i]], of[i],
                                            CountPairs[((i - 1 + k) % 3) + 1]) ]
                    IN file = IF rev THEN Reverse(rows) ELSE rows
    /\ input_rate_csv = << >>
    /\ output_rate = << >>
    /\ argument = << >>
    /\ org_rate_csv = << >>
    /\ IdleClassifier
    /\ IdleRate
    /\ IdleIO
    /\ IdleClients

\* _process_data of the six processors: load, sort, carry forward, export
ProcessData ==
    /\ pc = "loaded"
    /\ input_rate_csv' = ToCsv(Carried(file, scope, period_type), ExportColumns(scope))
    /\ argument' = ArgumentAfter(file, scope, period_type)
    /\ pc' = "carried"
    /\ UNCHANGED << scope, period_type, file, output_rate, org_rate_csv,
                    previous, current, diff, before, within, rate >>
    /\ UNCHANGED << processorVars, ioVars, clientVars >>

\* _calculate of the six rate classes: read the exported file, derive the
\* two rates of every row; an exception ends the run without a rate table
Calculate ==
    /\ pc = "carried"
    /\ LET dataframe == ReadCsv(input_rate_csv, RateNames(scope, period_type))
           rows == [ i \in DOMAIN dataframe |-> RateRow(dataframe[i], scope) ]
       IN IF \E i \in DOMAIN rows : rows[i].raised
          THEN pc' = "failed" /\ output_rate' = output_rate
          ELSE pc' = "rated" /\ output_rate' = rows
    /\ UNCHANGED << scope, period_type, file, input_rate_csv, argument,
                    org_rate_csv, previous, current, diff, before, within, rate >>
    /\ UNCHANGED << processorVars, ioVars, clientVars >>

Next == ProcessData \/ Calculate

Spec == Init /\ [][Next]_vars

----------------------------------------------------------------------------
(* The shift-based revision: Weekly / Monthly / YearlyActiveTherProcessor *)

\* period_end in this revision: of a yearly key,
\* period_start + relativedelta(day=31, month=11)
Shift_PeriodEnd(period, pt) ==
    IF pt = "weekly" THEN period.end
    ELSE IF pt = "monthly" THEN AddAbsolute(PeriodStart(period, pt), 0, 31)
    ELSE AddAbsolute(PeriodStart(period, pt), 11, 31)

Shift_GenerateDatePeriod(row, pt) ==
    [ c \in (DOMAIN row \ {"period"}) \cup {"period_start", "period_end"} |->
        IF c = "period_start" THEN PeriodStart(row.period, pt)
        ELSE IF c = "period_end" THEN Shift_PeriodEnd(row.period, pt)
        ELSE row[c] ]

Shift_LoadDataframe(f, pt) ==
    SortValues([ i \in DOMAIN f |-> Shift_GenerateDatePeriod(f[i], pt) ])

\* org_df[['active_ther', 'inactive_ther']].shift(1) into the two
\* before-period columns, then fillna(0)
Shift1(org_df) ==
    [ i \in DOMAIN org_df |->
        [org_df[i] EXCEPT
           !.active_ther_b_period = IF i = 1 THEN 0 ELSE org_df[i - 1].active_ther,
           !.inactive_ther_b_period = IF i = 1 THEN 0 ELSE org_df[i - 1].inactive_ther] ]

_calculate_num_of_thers_before_period(dataframe) ==
    LET organization_ids ==
            DropDuplicates([ i \in DOMAIN dataframe |-> dataframe[i].organization_id ])
    IN Concat([ k \in DOMAIN organization_ids |->
                  Shift1(WithOrg(dataframe, organization_ids[k])) ])

\* _process_data of the three processors: load, sort, shift, export.  The
\* yearly processor stops in set_trace() before the export: the debugger is
\* continued, or quit, which ends the run without a file.
ShiftProcessData ==
    /\ pc = "loaded"
    /\ scope = "org"
    /\ \E quit \in (IF period_type = "yearly" THEN BOOLEAN ELSE {FALSE}) :
         IF quit
         THEN pc' = "quit" /\ org_rate_csv' = org_rate_csv
         ELSE /\ pc' = "shifted"
              /\ org_rate_csv' =
                   ToCsv(_calculate_num_of_thers_before_period(
                             Shift_LoadDataframe(file, period_type)), OrgColumns)
    /\ UNCHANGED << scope, period_type, file, input_rate_csv, output_rate, argument,
                    previous, current, diff, before, within, rate >>
    /\ UNCHANGED << processorVars, ioVars, clientVars >>

NextShift == ShiftProcessData

SpecShift == Init /\ [][NextShift]_vars

----------------------------------------------------------------------------
(* The gap classifiers on their own *)

InitDate ==
    /\ pc = "dates"
    /\ previous \in Dates
    /\ current \in Dates
    /\ diff = NoDiff
    /\ IdleRun
    /\ IdleRate
    /\ IdleIO
    /\ IdleClients

Classify ==
    /\ pc = "dates"
    /\ diff' = [week  |-> is_one_week_diff(previous, current),
                month |-> is_one_month_diff(previous, current),
                year  |-> is_one_year_diff(previous, current)]
    /\ pc' = "classified"
    /\ UNCHANGED << scope, period_type, file, input_rate_csv, output_rate,
                    previous, current, before, within, rate, argument,
                    org_rate_csv >>
    /\ UNCHANGED << processorVars, ioVars, clientVars >>

NextDate == Classify

SpecDate == InitDate /\ [][NextDate]_vars

----------------------------------------------------------------------------
(* The rate functions on their own *)

InitRate ==
    /\ pc = "args"
    /\ before \in 0 .. MaxCount
    /\ within \in 0 .. MaxCount
    /\ rate = NoRate
    /\ IdleRun
    /\ IdleClassifier
    /\ IdleIO
    /\ IdleClients

GetRates ==
    /\ pc = "args"
    /\ LET churn     == _get_churn_rate(before, within)
           retention == _get_retention_rate(before, within)
       IN rate' = [churn_rate |-> churn.value, retention_rate |-> retention.value,
                   raised |-> (churn.raised \/ retention.raised)]
    /\ pc' = "returned"
    /\ UNCHANGED << scope, period_type, file, input_rate_csv, output_rate,
                    previous, current, diff, before, within, argument,
                    org_rate_csv >>
    /\ UNCHANGED << processorVars, ioVars, clientVars >>

NextRate == GetRates

SpecRate == InitRate /\ [][NextRate]_vars

----------------------------------------------------------------------------
(* The carry-forward run together with the classifiers on their own *)

InitGap == Init \/ InitDate

NextGap == ProcessData \/ Calculate \/ Classify

SpecGap == InitGap /\ [][NextGap]_vars

----------------------------------------------------------------------------
(* The interaction run: InteractionDataProcessor, InteractionFileExport *)

\* datetime.weekday(): Monday is 0, Sunday is 6
Weekday(date) == (ToOrdinal(date) + 6) % 7

\* to_period giving every date a period of its own
to_period_daily(date, freq) == << freq, ToOrdinal(date) >>

\* Series.dt.to_period(freq): 'W' is the week from Monday to Sunday
to_period(date, freq) ==
    IF freq = "W"
    THEN << "W", ToOrdinal(date) - Weekday(date), ToOrdinal(date) - Weekday(date) + 6 >>
    ELSE IF freq = "M" THEN << "M", date.year, date.month >>
    ELSE << "Y", date.year >>

Freq(pt) == IF pt = "weekly" THEN "W" ELSE IF pt = "monthly" THEN "M" ELSE "Y"

\* dropna keeping every row
DropNA_none(dataframe) == dataframe

\* dataframe.dropna(subset=['organization_id'])
DropNA(dataframe) == SelectSeq(dataframe, LAMBDA row : row.organization_id # NA)

\* the mask (chat_count > 1) | (call_count >= 1)
IsValidInteraction(row) == row.chat_count > 1 \/ row.call_count >= 1

\* the filter keeping every row
FilterInvalid_all(dataframe) == dataframe

\* dataframe[(dataframe['chat_count'] > 1) | (dataframe['call_count'] >= 1)]
FilterInvalid(dataframe) == SelectSeq(dataframe, IsValidInteraction)

\* the rows of a dataframe at the positions of keep, in their order
Pick(dataframe, keep) ==
    LET picked[i \in 0 .. Len(dataframe)] ==
            IF i = 0 THEN << >>
            ELSE IF i \in keep THEN Append(picked[i - 1], dataframe[i])
            ELSE picked[i - 1]
    IN picked[Len(dataframe)]

\* the value of a row in the first column of subset only
Columns_first(row, subset) == << row[subset[1]] >>

\* the values of a row in the columns of subset
Columns(row, subset) == [ i \in DOMAIN subset |-> row[subset[i]] ]

\* drop_duplicates keeping the first row of every key
drop_duplicates_first(dataframe, subset) ==
    Pick(dataframe, { i \in DOMAIN dataframe :
                        \A j \in DOMAIN dataframe :
                            j < i => Columns(dataframe[j], subset) # Columns(dataframe[i], subset) })

\* dataframe.drop_duplicates(subset=[...], keep='last')
drop_duplicates(dataframe, subset) ==
    Pick(dataframe, { i \in DOMAIN dataframe :
                        \A j \in DOMAIN dataframe :
                            j > i => Columns(dataframe[j], subset) # Columns(dataframe[i], subset) })

\* first row of the all-time aggregate file (num_of_thers_dataframe.head())
NumOfThersHead == [all_time_period |-> "2019-01-01/2023-12-31", all_time_thers |-> 3]

\* cleaned_dataframe.assign(all_time_period=..., all_time_thers=...)
AssignAllTime(dataframe, head) ==
    [ i \in DOMAIN dataframe |->
        dataframe[i] @@ [all_time_period |-> head.all_time_period,
                         all_time_thers |-> head.all_time_thers] ]

\* merged_dataframe.assign(period=interaction_date.dt.to_period(freq))
AssignPeriod(dataframe, freq) ==
    [ i \in DOMAIN dataframe |->
        dataframe[i] @@ [period |-> to_period(dataframe[i].interaction_date, freq)] ]

\* dataframe.merge(num_thers_per_org_dataframe, how='left', on='organization_id')
MergeLeft(dataframe, right) ==
    Concat([ i \in DOMAIN dataframe |->
        LET matches == SelectSeq(right, LAMBDA r :
                           r.organization_id = dataframe[i].organization_id)
        IN IF matches = << >>
           THEN << dataframe[i] @@ [total_thers_in_org |-> NA] >>
           ELSE [ j \in DOMAIN matches |->
                    dataframe[i] @@ [total_thers_in_org |-> matches[j].total_thers_in_org] ] ])

\* InteractionFileExport._all
ExportAll(dataframe) ==
    [ i \in DOMAIN dataframe |->
        << dataframe[i].all_time_period, dataframe[i].all_time_thers,
           dataframe[i].therapist_id >> ]

\* InteractionFileExport._per_org
ExportPerOrg(dataframe, right) ==
    LET merged == MergeLeft(dataframe, right)
    IN [ i \in DOMAIN merged |->
           << merged[i].period, merged[i].organization_id,
              merged[i].total_thers_in_org, merged[i].therapist_id >> ]

\* InteractionFileExport._per_app
ExportPerApp(dataframe) ==
    [ i \in DOMAIN dataframe |->
        << dataframe[i].period, dataframe[i].all_time_thers, dataframe[i].therapist_id >> ]

\* InteractionDataProcessor._process_data, steps 2 to 7
Interaction_process_data(dataframe, right) ==
    LET with_org == DropNA(dataframe)
        valid == FilterInvalid(with_org)
        cleaned_dataframe == drop_duplicates(valid, << "therapist_id", "interaction_date" >>)
        merged_dataframe == AssignAllTime(cleaned_dataframe, NumOfThersHead)
        period_dataframe == [ pt \in PeriodTypes |->
            drop_duplicates(AssignPeriod(merged_dataframe, Freq(pt)),
                            << "therapist_id", "period" >>) ]
    IN [ with_org |-> with_org,
         valid |-> valid,
         cleaned |-> cleaned_dataframe,
         alltime |-> drop_duplicates(merged_dataframe, << "therapist_id", "all_time_period" >>),
         period |-> period_dataframe,
         all_csv |-> ExportAll(drop_duplicates(merged_dataframe, << "therapist_id", "all_time_period" >>)),
         app_csv |-> [ pt \in PeriodTypes |-> ExportPerApp(period_dataframe[pt]) ],
         org_csv |-> [ pt \in PeriodTypes |-> ExportPerOrg(period_dataframe[pt], right) ] ]

Therapists == {"T1", "T2"}

\* two interaction dates: same week in two months; two weeks of a month;
\* the last day of a year and the next day; same week in two years
Calendars ==
    << << Date(2023, 1, 30), Date(2023, 2, 1) >>,
       << Date(2023, 1, 8), Date(2023, 1, 9) >>,
       << Date(2023, 12, 31), Date(2024, 1, 1) >>,
       << Date(2024, 12, 30), Date(2025, 1, 1) >> >>

\* (chat_count, call_count) of the rows of an interaction table
Activities == << <<2, 0>>, <<1, 0>>, <<0, 1>>, <<1, 1>>, <<0, 0>>, <<2, 1>> >>

\* organization_id of the rows of a backend table
OrgIds == << 42, 7, NA >>

\* per-organization aggregate files: one row per organization
PerOrgTables ==
    { << [organization_id |-> 42, total_thers_in_org |-> 2],
         [organization_id |-> 7, total_thers_in_org |-> 1] >>,
      << [organization_id |-> 42, total_thers_in_org |-> 2] >> }

\* an interaction table of 0 .. MaxInteractions rows has been collected
InitInteraction ==
    /\ pc = "collected"
    /\ \E n \in 0 .. MaxInteractions :
         \E c \in DOMAIN Calendars, k \in 0 .. 5, o \in 0 .. 3 :
           \E tf \in [1 .. n -> Therapists], df \in [1 .. n -> 1 .. 2] :
             interaction =
               [ i \in 1 .. n |->
                   [index |-> i - 1,
                    therapist_id |-> tf[i],
                    interaction_date |-> Calendars[c][df[i]],
                    chat_count |-> Activities[((i - 1 + k) % 6) + 1][1],
                    call_count |-> Activities[((i - 1 + k) % 6) + 1][2],
                    organization_id |-> IF o = 3 THEN OrgIds[1]
                                        ELSE OrgIds[((i - 1 + o) % 3) + 1]] ]
    /\ num_thers_per_org \in PerOrgTables
    /\ exported = NoExport
    /\ IdleRun /\ IdleClassifier /\ IdleRate
    /\ IdleTherapist /\ IdleCleaner /\ IdleDownload
    /\ IdleClients

InteractionProcessData ==
    /\ pc = "collected"
    /\ exported' = Interaction_process_data(interaction, num_thers_per_org)
    /\ pc' = "exported"
    /\ UNCHANGED << batchVars, interaction, num_thers_per_org,
                    therapist, therapist_input, ioVars, clientVars >>

----------------------------------------------------------------------------
(* The therapist run: TherapistDataProcessor *)

\* dataframe[['date_joined']].min() and .max()
MinDateJoined(dataframe) ==
    dataframe[CHOOSE i \in DOMAIN dataframe :
        \A j \in DOMAIN dataframe :
            ~ DateLT(dataframe[j].date_joined, dataframe[i].date_joined)].date_joined

MaxDateJoined(dataframe) ==
    dataframe[CHOOSE i \in DOMAIN dataframe :
        \A j \in DOMAIN dataframe :
            ~ DateLT(dataframe[i].date_joined, dataframe[j].date_joined)].date_joined

\* TherapistDataProcessor._process_data, steps 2 to 4; min() of no rows is
\* NaT, and NaT.strftime raises ValueError
Therapist_process_data(dataframe) ==
    LET cleaned == DropNA(dataframe)
    IN IF cleaned = << >>
       THEN [raised |-> TRUE, cleaned |-> cleaned, csv |-> << >>]
       ELSE [raised |-> FALSE, cleaned |-> cleaned,
             csv |-> [ i \in DOMAIN cleaned |->
                         << << MinDateJoined(cleaned), MaxDateJoined(cleaned) >>,
                            cleaned[i].organization_id, cleaned[i].id >> ]]

JoinDates == { Date(2019, 1, 1), Date(2021, 6, 15), Date(2023, 12, 31) }

\* a therapist table of 1 .. MaxTherapists rows has been collected
InitTherapist ==
    /\ pc = "therapists"
    /\ \E n \in 1 .. MaxTherapists :
         \E of \in [1 .. n -> Range(OrgIds)], jf \in [1 .. n -> JoinDates] :
           therapist = [ i \in 1 .. n |->
                           [id |-> i, organization_id |-> of[i], date_joined |-> jf[i]] ]
    /\ therapist_input = NoInput
    /\ IdleRun /\ IdleClassifier /\ IdleRate
    /\ IdleInteraction /\ IdleCleaner /\ IdleDownload
    /\ IdleClients

TherapistProcessData ==
    /\ pc = "therapists"
    /\ therapist_input' = Therapist_process_data(therapist)
    /\ pc' = IF therapist_input'.raised THEN "therapist_failed" ELSE "therapist_exported"
    /\ UNCHANGED << batchVars, interaction, num_thers_per_org, exported,
                    therapist, ioVars, clientVars >>

InitProcessor == InitInteraction \/ InitTherapist

NextProcessor == InteractionProcessData \/ TherapistProcessData

SpecProcessor == InitProcessor /\ [][NextProcessor]_vars

----------------------------------------------------------------------------
(* The data cleaner: TherapistInteractionCleaner *)

ExpectedHeaders ==
    << "therapist_id", "interaction_date", "therapist_chat_count", "call_count" >>

\* first lines of an interaction file: the expected header, the same columns
\* in another order, a column short, a column more, a column renamed, an
\* empty line
HeaderLines ==
    { ExpectedHeaders,
      << "call_count", "therapist_id", "interaction_date", "therapist_chat_count" >>,
      << "therapist_id", "interaction_date", "therapist_chat_count" >>,
      << "therapist_id", "interaction_date", "therapist_chat_count", "call_count",
         "organization_id" >>,
      << "therapist_id", "interaction_date", "chat_count", "call_count" >>,
      << >> }

DataLine == << "T1", "2023-01-30", "2", "0" >>

\* the interaction file as a list of lines: empty, or a first line and
\* 0 .. MaxDataRows data lines
CsvTables ==
    { << >> } \cup
    { << h >> \o [ i \in 1 .. n |-> DataLine ] :
        h \in HeaderLines, n \in 0 .. MaxDataRows }

\* the cleaner starts with a file on disk and a table on the backend
InitCleaner ==
    /\ pc = "cleaner_start"
    /\ \E dev \in BOOLEAN, backend \in CsvTables, disk \in CsvTables :
         cleaner = [DEV_MODE |-> dev, backend |-> backend, disk |-> disk]
    /\ IdleRun /\ IdleClassifier /\ IdleRate
    /\ IdleInteraction /\ IdleTherapist /\ IdleDownload
    /\ IdleClients

\* TherapistInteractionCleaner.__init__: collect_data downloads the file
\* unless DEV_MODE is set, and returns
collect_data ==
    /\ pc = "cleaner_start"
    /\ cleaner' = IF cleaner.DEV_MODE THEN cleaner
                  ELSE [cleaner EXCEPT !.disk = cleaner.backend]
    /\ pc' = "cleaner_collected"
    /\ UNCHANGED << batchVars, processorVars, download, clientVars >>

\* TherapistInteractionCleaner.clean
clean ==
    /\ pc = "cleaner_collected"
    /\ pc' = "cleaner_done"
    /\ UNCHANGED << batchVars, processorVars, ioVars, clientVars >>

NextCleaner == collect_data \/ clean

SpecCleaner == InitCleaner /\ [][NextCleaner]_vars

----------------------------------------------------------------------------
(* A streamed download: BackendAPIClient._download *)

\* chunks of a response; an empty chunk is skipped
Chunks == { "a", "b", "" }

\* the response as iter_content yields it
Responses == UNION { [1 .. n -> Chunks] : n \in 0 .. MaxChunks }

\* what the file holds before the download: nothing, or an earlier snapshot
PreviousFiles == { Missing, << >>, << "a" >>, << "b", "a" >> }

InitDownload ==
    /\ pc = "posting"
    /\ \E previous_file \in PreviousFiles, response \in Responses :
         download = [previous |-> previous_file, response |-> response,
                     file |-> previous_file, written |-> 0]
    /\ IdleRun /\ IdleClassifier /\ IdleRate
    /\ IdleInteraction /\ IdleTherapist /\ IdleCleaner
    /\ IdleClients

\* requests.post(..., stream=True) has answered; open(download_as, 'wb')
\* creates the file or truncates it
OpenFile ==
    /\ pc = "posting"
    /\ download' = [download EXCEPT !.file = << >>]
    /\ pc' = "writing"
    /\ UNCHANGED << batchVars, processorVars, cleaner, clientVars >>

\* one round of the loop over req.iter_content(chunk_size)
WriteChunk ==
    /\ pc = "writing"
    /\ download.written < Len(download.response)
    /\ LET chunk == download.response[download.written + 1]
       IN download' = [download EXCEPT
                         !.file = IF chunk = "" THEN @ ELSE Append(@, chunk),
                         !.written = @ + 1]
    /\ pc' = "writing"
    /\ UNCHANGED << batchVars, processorVars, cleaner, clientVars >>

\* the response is exhausted; both with blocks are left
CloseFile ==
    /\ pc = "writing"
    /\ download.written = Len(download.response)
    /\ pc' = "downloaded"
    /\ UNCHANGED << batchVars, processorVars, ioVars, clientVars >>

\* the request, iter_content or file.write raises; the with blocks close
\* the file as it is
DownloadFails ==
    /\ pc \in { "posting", "writing" }
    /\ pc' = "download_failed"
    /\ UNCHANGED << batchVars, processorVars, ioVars, clientVars >>

NextDownload == OpenFile \/ WriteChunk \/ CloseFile \/ DownloadFails

SpecDownload == InitDownload /\ [][NextDownload]_vars

----------------------------------------------------------------------------
(* The sync-back of the NiceDay totals: TotalTherapistBackendOperation *)

\* the two dictionaries made of one row of an aggregate file
\* [{period},{active_ther},{inactive_ther},{total_ther}]
TotalThers(pt, period_start, period_end, row) ==
    << [period_type |-> pt, start_date |-> period_start, end_date |-> period_end,
        is_active |-> TRUE, value |-> row.active_ther],
       [period_type |-> pt, start_date |-> period_start, end_date |-> period_end,
        is_active |-> FALSE, value |-> row.inactive_ther] >>

\* period.split('/')
_get_nd_weekly_total_thers(row) ==
    TotalThers("weekly", row.period.start, row.period.end, row)

\* parse(f'{period}-01') and period_start + relativedelta(day=31)
_get_nd_monthly_total_thers(row) ==
    LET period_start == Date(row.period.year, row.period.month, 1)
    IN TotalThers("monthly", period_start, AddAbsolute(period_start, 0, 31), row)

\* parse(f'{period}-01-01') and parse(f'{period}-12-01') + relativedelta(day=31)
_get_nd_yearly_total_thers(row) ==
    TotalThers("yearly", Date(row.period.year, 1, 1),
               AddAbsolute(Date(row.period.year, 12, 1), 0, 31), row)

\* the dispatch on period_type; any other period type gives the empty list
_get_nd_total_thers(row, pt) ==
    IF pt = "weekly" THEN _get_nd_weekly_total_thers(row)
    ELSE IF pt = "monthly" THEN _get_nd_monthly_total_thers(row)
    ELSE IF pt = "yearly" THEN _get_nd_yearly_total_thers(row)
    ELSE << >>

\* chain.from_iterable
RECURSIVE Chain(_)
Chain(lists) ==
    IF lists = << >> THEN << >> ELSE Head(lists) \o Chain(Tail(lists))

to_nd_total_thers(dataframe, pt) ==
    Chain([ i \in DOMAIN dataframe |-> _get_nd_total_thers(dataframe[i], pt) ])

\* the period type each _get_nd_*_therapists hands to the mapper
SyncStages == << "alltime", "weekly", "monthly", "yearly" >>

\* the period an all-time aggregate row covers, 'start/end'
AllTimePeriods ==
    << [start |-> Date(2023, 1, 1), end |-> Date(2023, 12, 31)],
       [start |-> Date(2023, 1, 1), end |-> Date(2024, 3, 31)],
       [start |-> Date(2024, 1, 1), end |-> Date(2024, 3, 31)] >>

SyncPeriods(pt) == IF pt = "alltime" THEN AllTimePeriods ELSE Periods(pt)

\* the four by-app aggregate files are on disk, 1 .. MaxRows rows each
InitSync ==
    /\ pc = "sync_alltime"
    /\ \E n \in 1 .. MaxRows, p \in 0 .. 3, k \in 0 .. 2 :
         sync = [ file |->
                    [ pt \in Range(SyncStages) |->
                        [ i \in 1 .. n |->
                            FileRow("nd",
                                    SyncPeriods(pt)[((p + i - 1) % Len(SyncPeriods(pt))) + 1],
                                    NA,
                                    CountPairs[((k + i - 1) % Len(CountPairs)) + 1]) ] ],
                  upserted |-> [ pt \in Range(SyncStages) |-> << >> ],
                  payload |-> << >> ]
    /\ IdleRun /\ IdleClassifier /\ IdleRate
    /\ IdleIO
    /\ operation = NoOperation /\ client = NoClient

\* api.upsert(total_thers): the payload the backend is handed
Upsert(pt, total_thers) ==
    [sync EXCEPT !.payload = total_thers, !.upserted[pt] = << total_thers >>]

\* _get_nd_alltime_therapists, then api.upsert of what it returned
_sync_back_nd_alltime_data ==
    /\ pc = "sync_alltime"
    /\ sync' = Upsert("alltime", to_nd_total_thers(sync.file["alltime"], "alltime"))
    /\ pc' = "sync_weekly"
    /\ UNCHANGED << batchVars, processorVars, ioVars, operation, client >>

_sync_back_nd_weekly_data ==
    /\ pc = "sync_weekly"
    /\ sync' = Upsert("weekly", to_nd_total_thers(sync.file["weekly"], "weekly"))
    /\ pc' = "sync_monthly"
    /\ UNCHANGED << batchVars, processorVars, ioVars, operation, client >>

_sync_back_nd_monthly_data ==
    /\ pc = "sync_monthly"
    /\ sync' = Upsert("monthly", to_nd_total_thers(sync.file["monthly"], "monthly"))
    /\ pc' = "sync_yearly"
    /\ UNCHANGED << batchVars, processorVars, ioVars, operation, client >>

_sync_back_nd_yearly_data ==
    /\ pc = "sync_yearly"
    /\ sync' = Upsert("yearly", to_nd_total_thers(sync.file["yearly"], "yearly"))
    /\ pc' = "synced"
    /\ UNCHANGED << batchVars, processorVars, ioVars, operation, client >>

NextSync ==
    \/ _sync_back_nd_alltime_data
    \/ _sync_back_nd_weekly_data
    \/ _sync_back_nd_monthly_data
    \/ _sync_back_nd_yearly_data

SpecSync == InitSync /\ [][NextSync]_vars

----------------------------------------------------------------------------
(* The backend operations: TherapistBackendOperation, InteractionBackendOperation *)

\* contents of the temporary CSV file: a header line, then data lines
CsvFiles == { << >>, << "header" >>, << "header", "a" >>, << "header", "b" >>,
              << "header", "a", "b" >> }

\* the attribute _ddf is not set
NoDdf == [collect |-> 0, rows |-> << >>]

Prefix(body, k) == [ i \in 1 .. k |-> body[i] ]

\* api.download_data: the request is refused before the file is opened,
\* the stream breaks after k lines, or the whole body is written
DownloadOutcomes(body) ==
    { [raised |-> TRUE, opened |-> FALSE, written |-> 0] }
    \cup { [raised |-> TRUE, opened |-> TRUE, written |-> k] : k \in 0 .. Len(body) }
    \cup { [raised |-> FALSE, opened |-> TRUE, written |-> Len(body)] }

\* the file after api.download_data; nothing is downloaded in developer mode
DiskAfter(op, outcome, body) ==
    IF op.DEV_MODE \/ ~ outcome.opened THEN op.disk
    ELSE Prefix(body, outcome.written)

\* dask_dataframe.read_csv raises on a missing file and on an empty one
ReadRaises(disk) == disk = Missing \/ disk = << >>

\* collect_data does not return
CollectRaises(op, outcome, body) ==
    \/ ~ op.DEV_MODE /\ outcome.raised
    \/ ReadRaises(DiskAfter(op, outcome, body))

\* collect_data that binds _ddf before the download is attempted
Operation_collect_data_eager(op, outcome, body) ==
    [op EXCEPT !.disk = DiskAfter(op, outcome, body),
               !.has_ddf = TRUE,
               !._ddf = [collect |-> op.calls + 1,
                         rows |-> IF ReadRaises(op.disk) THEN << >> ELSE Tail(op.disk)]]

\* collect_data: download unless in developer mode, then bind _ddf to the
\* dataframe read from the file
Operation_collect_data(op, outcome, body) ==
    LET disk == DiskAfter(op, outcome, body)
    IN IF CollectRaises(op, outcome, body)
       THEN [op EXCEPT !.disk = disk]
       ELSE [op EXCEPT !.disk = disk,
                       !.has_ddf = TRUE,
                       !._ddf = [collect |-> op.calls + 1, rows |-> Tail(disk)]]

\* the data property: the assertion on hasattr(self, '_ddf'), then self._ddf
Operation_data(op) ==
    IF op.has_ddf THEN [raised |-> "", value |-> op._ddf]
    ELSE [raised |-> "AssertionError", value |-> NoDdf]

\* a fresh operation object; the file of an earlier run may be on disk
InitOperation ==
    /\ pc = "operation_made"
    /\ \E kind \in {"therapist", "interaction"}, dev \in BOOLEAN,
          disk \in CsvFiles \cup {Missing} :
         operation = [kind |-> kind, DEV_MODE |-> dev, disk |-> disk,
                      has_ddf |-> FALSE, _ddf |-> NoDdf, calls |-> 0,
                      completed |-> 0, loaded |-> NoDdf,
                      read |-> [raised |-> "", value |-> NoDdf]]
    /\ IdleRun /\ IdleClassifier /\ IdleRate
    /\ IdleIO
    /\ sync = NoSync /\ client = NoClient

\* a call of collect_data(); completed and loaded remember the last call
\* that returned and the dataframe it read
CollectData ==
    /\ pc \in {"operation_made", "operation_collected", "operation_failed",
               "operation_read"}
    /\ operation.calls < MaxCalls
    /\ \E body \in CsvFiles :
         \E outcome \in DownloadOutcomes(body) :
           LET after == Operation_collect_data(operation, outcome, body)
               raised == CollectRaises(operation, outcome, body)
           IN /\ operation' =
                   [after EXCEPT !.calls = @ + 1,
                                 !.completed = IF raised THEN @ ELSE operation.calls + 1,
                                 !.loaded = IF raised THEN @
                                            ELSE [collect |-> operation.calls + 1,
                                                  rows |-> Tail(after.disk)]]
              /\ pc' = IF raised THEN "operation_failed" ELSE "operation_collected"
    /\ UNCHANGED << batchVars, processorVars, ioVars, sync, client >>

\* a read of the data property
ReadData ==
    /\ pc \in {"operation_made", "operation_collected", "operation_failed",
               "operation_read"}
    /\ operation.calls < MaxCalls
    /\ operation' = [operation EXCEPT !.calls = @ + 1,
                                      !.read = Operation_data(operation)]
    /\ pc' = "operation_read"
    /\ UNCHANGED << batchVars, processorVars, ioVars, sync, client >>

NextOperation == CollectData \/ ReadData

SpecOperation == InitOperation /\ [][NextOperation]_vars

----------------------------------------------------------------------------
(* The backend client: BackendAPIClient.__init__ and _get_access_token *)

\* Python's None, as the token that was not read or not issued
None == << >>

\* contents of '.backend.access_token.tmp'
TokenFiles == { Missing, << "" >>, << "t1" >>, << "t2" >> }

\* bool(token)
Truthy(token) == token # None /\ token # << "" >>

\* what the backend and the file system do during one construction:
\* whether the file can be read, the answer to GET /accounts/me/, and the
\* answer to POST /auth/login/ with the token of its JSON body
Environments ==
    [ readable : BOOLEAN,
      validation : {"ok", "HTTPError", "ConnectionError"},
      login : {"ok", "HTTPError"},
      token : {None, << "" >>, << "t1" >>, << "t2" >>} ]

\* _read_access_token: None when the file is absent or cannot be read
_read_access_token(token_file, env) ==
    IF token_file = Missing THEN None
    ELSE IF env.readable THEN token_file
    ELSE None

\* _login: the request, then _write_access_token, then the token; the file
\* is truncated by open(..., "w") before write(None) raises
_login(c, env) ==
    LET requested == [c EXCEPT !.requests = Append(@, "login")]
    IN IF env.login # "ok" THEN [requested EXCEPT !.raised = env.login]
       ELSE IF env.token = None
       THEN [requested EXCEPT !.writes = @ + 1, !.file = << "" >>,
                              !.raised = "TypeError"]
       ELSE [requested EXCEPT !.writes = @ + 1, !.file = env.token,
                              !.returned = env.token]

\* _get_access_token that logs in whatever the validation says
_get_access_token_relogin(c, env) ==
    LET token == _read_access_token(c.file, env)
        read == [c EXCEPT !.reads = @ + 1]
    IN IF Truthy(token)
       THEN _login([read EXCEPT !.requests = Append(@, "validate")], env)
       ELSE _login(read, env)

\* _get_access_token: the token of the file when it validates, a login
\* otherwise; _validate_access_token catches HTTPError only
_get_access_token(c, env) ==
    LET token == _read_access_token(c.file, env)
        read == [c EXCEPT !.reads = @ + 1]
    IN IF Truthy(token)
       THEN LET validated == [read EXCEPT !.requests = Append(@, "validate")]
            IN IF env.validation = "ok"
               THEN [validated EXCEPT !.returned = token]
               ELSE IF env.validation = "HTTPError"
               THEN _login(validated, env)
               ELSE [validated EXCEPT !.raised = env.validation]
       ELSE _login(read, env)

\* the first client of a run is about to be constructed
InitClient ==
    /\ pc = "client_new"
    /\ \E dev \in BOOLEAN, token_file \in TokenFiles :
         client = [DEV_MODE |-> dev, file |-> token_file, before |-> token_file,
                   env |-> CHOOSE env \in Environments : TRUE,
                   requests |-> << >>, reads |-> 0, writes |-> 0,
                   returned |-> None, raised |-> "", made |-> 0]
    /\ IdleRun /\ IdleClassifier /\ IdleRate
    /\ IdleIO
    /\ sync = NoSync /\ operation = NoOperation

\* BackendAPIClient.__init__: nothing in developer mode, _get_access_token
\* otherwise; before and env remember the file and the answers it met
BackendAPIClient_init ==
    /\ pc \in {"client_new", "client_made", "client_failed"}
    /\ client.made < MaxClients
    /\ \E env \in Environments :
         LET fresh == [client EXCEPT !.before = client.file, !.env = env,
                                     !.requests = << >>, !.reads = 0, !.writes = 0,
                                     !.returned = None, !.raised = "",
                                     !.made = @ + 1]
             after == IF client.DEV_MODE THEN fresh
                      ELSE _get_access_token(fresh, env)
         IN /\ client' = after
            /\ pc' = IF after.raised = "" THEN "client_made" ELSE "client_failed"
    /\ UNCHANGED << batchVars, processorVars, ioVars, sync, operation >>

SpecClient == InitClient /\ [][BackendAPIClient_init]_vars

----------------------------------------------------------------------------
(* Vocabulary of the properties *)

\* the carry-forward stage has run
CarryDone == pc \in {"carried", "rated"}

\* the keys of the series the carry-forward walks: one per organization,
\* or the single series of the application
SeriesKeys == IF scope = "org" THEN Orgs ELSE {0}

\* the period-sorted input series of a key
InSeries(key) ==
    IF scope = "org" THEN WithOrg(LoadDataframe(file, period_type), key)
    ELSE LoadDataframe(file, period_type)

\* the exported lines of a key, in file order
OutSeries(key) ==
    IF scope = "org" THEN SelectSeq(input_rate_csv, LAMBDA line : line[3] = key)
    ELSE input_rate_csv

\* (active_ther_b_period, inactive_ther_b_period) of an exported line
BPair(line) == IF scope = "org" THEN << line[7], line[8] >> ELSE << line[6], line[7] >>

\* whole periods between two period ends
GapUnits(pt, prev, cur) ==
    IF pt = "weekly" THEN (ToOrdinal(cur) - ToOrdinal(prev)) \div 7
    ELSE IF pt = "monthly" THEN (cur.year * 12 + cur.month) - (prev.year * 12 + prev.month)
    ELSE cur.year - prev.year

IsMonthEnd(dt) == dt.day = MonthRange(dt.year, dt.month)

\* cur is prev moved one calendar month on (a day the target month lacks
\* becomes its last day)
OneMonthLater(prev, cur) ==
    /\ (cur.year * 12 + cur.month) - (prev.year * 12 + prev.month) = 1
    /\ cur.day = Min(prev.day, MonthRange(cur.year, cur.month))

\* cur is prev moved one calendar year on
OneYearLater(prev, cur) ==
    /\ cur.year = prev.year + 1
    /\ cur.month = prev.month
    /\ cur.day = Min(prev.day, MonthRange(cur.year, cur.month))

----------------------------------------------------------------------------
(* Properties *)

\* C1: per organization, a record after the first whose predecessor the gap
\* classifier puts exactly one unit earlier carries the active / inactive
\* counts of that immediately preceding record of the same organization.
C1_CarryFromPrev ==
    (CarryDone /\ scope = "org") =>
        \A o \in Orgs :
            /\ Len(OutSeries(o)) = Len(InSeries(o))
            /\ \A i \in 2 .. Len(InSeries(o)) :
                 OneUnitDiff(period_type, InSeries(o)[i - 1].period_end,
                             InSeries(o)[i].period_end)
                 => BPair(OutSeries(o)[i]) = << InSeries(o)[i - 1].active_ther,
                                                InSeries(o)[i - 1].inactive_ther >>

\* an organization's second record carries its first record's counts while
\* a record of the other organization sits between the two in the sorted input
C1_Witness ==
    /\ pc = "carried" /\ scope = "org"
    /\ \E o \in Orgs :
         LET dataframe == LoadDataframe(file, period_type)
         IN /\ Len(dataframe) = 3
            /\ dataframe[1].organization_id = o
            /\ dataframe[2].organization_id # o
            /\ dataframe[3].organization_id = o
            /\ OneUnitDiff(period_type, dataframe[1].period_end, dataframe[3].period_end)
            /\ BPair(OutSeries(o)[2]) = << dataframe[1].active_ther,
                                           dataframe[1].inactive_ther >>
            /\ dataframe[2].active_ther # dataframe[1].active_ther

\* C2 (as claimed): a record whose predecessor lies 2 or more weeks /
\* months / years earlier gets (0, 0), for both processors and all three
\* period types.
C2_GapResets ==
    CarryDone =>
        \A key \in SeriesKeys :
            \A i \in 2 .. Len(InSeries(key)) :
                GapUnits(period_type, InSeries(key)[i - 1].period_end,
                         InSeries(key)[i].period_end) >= 2
                => BPair(OutSeries(key)[i]) = << 0, 0 >>

\* C3: the first record of every organization's series gets (0, 0),
\* wherever it sits in the sorted input; so does a single record.
C3_FirstRowZero ==
    (CarryDone /\ scope = "org") =>
        \A o \in Orgs :
            InSeries(o) # << >> =>
                /\ OutSeries(o) # << >>
                /\ BPair(OutSeries(o)[1]) = << 0, 0 >>

\* an organization whose only record follows, one unit later, a record of
\* the other organization
C3_Witness ==
    /\ pc = "carried" /\ scope = "org"
    /\ \E o \in Orgs :
         LET dataframe == LoadDataframe(file, period_type)
         IN /\ Len(InSeries(o)) = 1
            /\ Len(dataframe) >= 2
            /\ dataframe[2].organization_id = o
            /\ dataframe[1].organization_id # o
            /\ OneUnitDiff(period_type, dataframe[1].period_end, dataframe[2].period_end)
            /\ BPair(OutSeries(o)[1]) = << 0, 0 >>

\* the weekly records of the end-to-end scenario, for one organization
C4_Scenario ==
    /\ scope = "org" /\ period_type = "weekly"
    /\ LET dataframe == LoadDataframe(file, period_type)
       IN /\ Len(dataframe) = 3
          /\ \A i \in 1 .. 3 : dataframe[i].organization_id = dataframe[1].organization_id
          /\ [ i \in 1 .. 3 |-> dataframe[i].period_end ]
               = << Date(2023, 1, 7), Date(2023, 1, 14), Date(2023, 1, 28) >>
          /\ [ i \in 1 .. 3 |-> << dataframe[i].active_ther, dataframe[i].inactive_ther >> ]
               = << <<10, 2>>, <<12, 1>>, <<8, 5>> >>

\* C4: per organization, every rate row is derived from the record's own
\* active_ther and the active_ther_b_period the carry-forward gave it; in
\* the scenario the before pairs are (0,0), (10,2), (0,0) and the rates
\* (churn, retention) are (0, 0), (-0.2, 1.2), (0, 0).
C4_EndToEnd ==
    (pc = "rated" /\ scope = "org") =>
        LET carried == Carried(file, scope, period_type)
        IN /\ Len(output_rate) = Len(carried)
           /\ \A i \in DOMAIN carried :
                /\ output_rate[i].organization_id = carried[i].organization_id
                /\ output_rate[i].period_end = carried[i].period_end
                /\ output_rate[i].churn_rate =
                     _get_churn_rate(carried[i].active_ther_b_period,
                                     carried[i].active_ther).value
                /\ output_rate[i].retention_rate =
                     _get_retention_rate(carried[i].active_ther_b_period,
                                         carried[i].active_ther).value
           /\ C4_Scenario =>
                /\ [ i \in 1 .. 3 |-> BPair(input_rate_csv[i]) ]
                     = << <<0, 0>>, <<10, 2>>, <<0, 0>> >>
                /\ [ i \in 1 .. 3 |-> << output_rate[i].churn_rate,
                                         output_rate[i].retention_rate >> ]
                     = << <<0, 0>>, <<0 - 20, 120>>, <<0, 0>> >>

C4_Witness ==
    /\ pc = "rated"
    /\ C4_Scenario
    /\ output_rate[2].churn_rate = 0 - 20
    /\ output_rate[2].retention_rate = 120

\* C5 (as claimed): is_one_week_diff is true exactly when current is 7 days
\* after previous.
C5_OneWeekIff ==
    pc = "classified" =>
        (diff.week <=> ToOrdinal(current) - ToOrdinal(previous) = 7)

\* C6 (as claimed): is_one_month_diff is true exactly when current is one
\* calendar month after previous; for two month ends, exactly when current
\* ends the month that follows previous's month.
C6_OneMonthIff ==
    pc = "classified" =>
        /\ diff.month <=> OneMonthLater(previous, current)
        /\ (IsMonthEnd(previous) /\ IsMonthEnd(current)) =>
              (diff.month <=> GapUnits("monthly", previous, current) = 1)

\* C7 (as claimed): is_one_year_diff is true exactly when current is one
\* calendar year after previous; for two year ends, exactly when the years
\* differ by one.
C7_OneYearIff ==
    pc = "classified" =>
        /\ diff.year <=> OneYearLater(previous, current)
        /\ (previous.month = 12 /\ previous.day = 31
              /\ current.month = 12 /\ current.day = 31) =>
              (diff.year <=> current.year = previous.year + 1)

\* C8: when current is not later than previous all three classifiers
\* return false; a record whose period_end is the same as or earlier than
\* its predecessor's gets (0, 0).
C8_NotLaterIsFalse ==
    /\ (pc = "classified" /\ ~ DateLT(previous, current)) => diff = NoDiff
    /\ CarryDone =>
         \A key \in SeriesKeys :
             \A i \in 2 .. Len(InSeries(key)) :
                 ~ DateLT(InSeries(key)[i - 1].period_end, InSeries(key)[i].period_end)
                 => /\ ~ OneUnitDiff(period_type, InSeries(key)[i - 1].period_end,
                                     InSeries(key)[i].period_end)
                    /\ BPair(OutSeries(key)[i]) = << 0, 0 >>

\* a record whose period_end is earlier than its predecessor's was given (0, 0)
C8_Witness ==
    /\ pc = "carried"
    /\ \E key \in SeriesKeys :
         \E i \in 2 .. Len(InSeries(key)) :
             /\ DateLT(InSeries(key)[i].period_end, InSeries(key)[i - 1].period_end)
             /\ BPair(OutSeries(key)[i]) = << 0, 0 >>

\* C9: with a before-period count of 0 both rates are 0 and nothing is
\* raised, whatever the count within the period.
C9_ZeroBefore ==
    (pc = "returned" /\ before = 0) =>
        /\ ~ rate.raised
        /\ rate.churn_rate = 0
        /\ rate.retention_rate = 0

C9_Witness ==
    /\ pc = "returned" /\ before = 0 /\ within > 0
    /\ rate = [churn_rate |-> 0, retention_rate |-> 0, raised |-> FALSE]

\* C10: with a before-period count other than 0 the churn rate is the
\* hundredth nearest to (before - within) / before and the retention rate
\* the hundredth nearest to within / before; neither is clamped: when the
\* count grew the churn rate is <= 0 and the retention rate >= 1, and
\* churn(10, 12) = -0.2, retention(10, 12) = 1.2.
C10_RoundedUnclamped ==
    (pc = "returned" /\ before # 0) =>
        /\ ~ rate.raised
        /\ 2 * Abs(100 * (before - within) - rate.churn_rate * before) <= Abs(before)
        /\ 2 * Abs(100 * within - rate.retention_rate * before) <= Abs(before)
        /\ within > before => (rate.churn_rate <= 0 /\ rate.retention_rate >= 100)
        /\ (before = 10 /\ within = 12) =>
              (rate.churn_rate = 0 - 20 /\ rate.retention_rate = 120)

C10_Witness ==
    /\ pc = "returned" /\ before = 10 /\ within = 12
    /\ rate.churn_rate = 0 - 20 /\ rate.retention_rate = 120

\* C11: for a before-period count above 0, an unchanged count gives churn
\* 0.0 and retention 1.0, and a count of 0 within the period gives churn
\* 1.0 and retention 0.0.
C11_FixedPoints ==
    (pc = "returned" /\ before > 0) =>
        /\ within = before => (rate.churn_rate = 0 /\ rate.retention_rate = 100)
        /\ within = 0 => (rate.churn_rate = 100 /\ rate.retention_rate = 0)
        /\ ~ rate.raised

C11_Witness ==
    /\ pc = "returned" /\ before > 1 /\ within = 0
    /\ rate.churn_rate = 100 /\ rate.retention_rate = 0

\* the dataframe the carry-forward stage exported, read back
ExportedDataframe == ReadCsv(input_rate_csv, ExportColumns(scope))

\* a dataframe whose two before-period columns hold a given value
Prefilled(dataframe, value) ==
    [ i \in DOMAIN dataframe |->
        [dataframe[i] EXCEPT !.active_ther_b_period = value,
                             !.inactive_ther_b_period = value] ]

\* C12: per organization, the carry-forward run on its own output gives
\* that output again, and its result on the sorted input is the same
\* whatever the two before-period columns of the input hold.
C12_Idempotent ==
    (CarryDone /\ scope = "org") =>
        /\ Org_set_total_thers_before_period(ExportedDataframe, period_type)
             = ExportedDataframe
        /\ \A value \in {0, 7} :
             Org_set_total_thers_before_period(
                 Prefilled(LoadDataframe(file, period_type), value), period_type)
             = ExportedDataframe

\* an output with a carried pair, which the second run meets as input
C12_Witness ==
    /\ pc = "carried" /\ scope = "org"
    /\ \E i \in DOMAIN input_rate_csv : BPair(input_rate_csv[i]) = << 10, 2 >>
    /\ Org_set_total_thers_before_period(ExportedDataframe, period_type)
         = ExportedDataframe

\* C13: the before-period values of an organization's records are those
\* the carry-forward gives when the input holds that organization's
\* records alone.
C13_OrgIndependent ==
    (CarryDone /\ scope = "org") =>
        \A o \in Orgs :
            WithOrg(ExportedDataframe, o)
              = Org_set_total_thers_before_period(
                    WithOrg(LoadDataframe(file, period_type), o), period_type)

\* an organization's record follows, one unit later, a record of the other
\* organization, its own previous record lies further back, and it got (0, 0)
C13_Witness ==
    /\ pc = "carried" /\ scope = "org"
    /\ \E o \in Orgs :
         LET dataframe == LoadDataframe(file, period_type)
         IN /\ Len(dataframe) = 3
            /\ dataframe[1].organization_id = o
            /\ dataframe[2].organization_id # o
            /\ dataframe[3].organization_id = o
            /\ OneUnitDiff(period_type, dataframe[2].period_end, dataframe[3].period_end)
            /\ ~ OneUnitDiff(period_type, dataframe[1].period_end, dataframe[3].period_end)
            /\ BPair(OutSeries(o)[2]) = << 0, 0 >>

\* the six columns the carry-forward leaves alone
Kept(row) ==
    << row.organization_id, row.period_start, row.period_end,
       row.active_ther, row.inactive_ther, row.total_ther >>

\* the six columns of every record of a dataframe, in its order
KeptOf(dataframe) == [ i \in DOMAIN dataframe |-> Kept(dataframe[i]) ]

\* the rows of the file as the loader sees them, in file order
FileDataframe == [ i \in DOMAIN file |-> GenerateDatePeriod(file[i], period_type) ]

\* C14: the per-organization carry-forward returns one record per input
\* record with the six other columns unchanged and the two before-period
\* columns set; the records of an organization form one block, and inside
\* a block they ascend by period_start, then period_end.
C14_SameRecordsInBlocks ==
    (CarryDone /\ scope = "org") =>
        LET out == ExportedDataframe
        IN /\ Len(out) = Len(file)
           /\ \A i \in DOMAIN out :
                /\ Cardinality({ j \in DOMAIN out : Kept(out[j]) = Kept(out[i]) })
                     = Cardinality({ j \in DOMAIN file :
                                       Kept(FileDataframe[j]) = Kept(out[i]) })
                /\ out[i].active_ther_b_period # NA
                /\ out[i].inactive_ther_b_period # NA
           /\ \A i, j, k \in DOMAIN out :
                (i < j /\ j < k /\ out[i].organization_id = out[k].organization_id)
                => out[j].organization_id = out[i].organization_id
           /\ \A i \in 1 .. Len(out) - 1 :
                out[i].organization_id = out[i + 1].organization_id
                => ~ KeyLT(out[i + 1], out[i])
           /\ \A o \in Orgs :
                KeptOf(WithOrg(out, o))
                  = KeptOf(WithOrg(LoadDataframe(file, period_type), o))

\* a file in descending key order with both organizations in it
C14_Witness ==
    /\ pc = "carried" /\ scope = "org"
    /\ Len(file) = 3
    /\ KeyLT(FileDataframe[3], FileDataframe[2])
    /\ KeyLT(FileDataframe[2], FileDataframe[1])
    /\ FileDataframe[1].organization_id = FileDataframe[3].organization_id
    /\ FileDataframe[2].organization_id # FileDataframe[1].organization_id
    /\ Kept(ExportedDataframe[1]) = Kept(FileDataframe[3])
    /\ Kept(ExportedDataframe[2]) = Kept(FileDataframe[1])
\* the interaction run has exported its files
InteractionDone == pc = "exported"

\* the index labels of the rows of a dataframe
Indexes(dataframe) == { dataframe[i].index : i \in DOMAIN dataframe }

\* the claim's activity condition of a row
Active(row) == row.chat_count > 1 \/ row.call_count >= 1

\* the dataframes after the filter, up to the exported ones
AfterFilter ==
    { exported.valid, exported.cleaned, exported.alltime }
      \cup { exported.period[pt] : pt \in PeriodTypes }

\* C15: a row is retained by the validity filter iff chat_count > 1 or
\* call_count >= 1; of (2,0), (1,0), (0,1), (1,1) the first, third and
\* fourth are kept; no row with chat_count <= 1 and call_count < 1 is in
\* the input of the de-duplication or behind a line of the output.
C15_ValidityFilter ==
    InteractionDone =>
        /\ \A i \in DOMAIN exported.with_org :
             (exported.with_org[i].index \in Indexes(exported.valid))
               <=> Active(exported.with_org[i])
        /\ (/\ Len(exported.with_org) = 4
            /\ \A i \in 1 .. 4 :
                 << exported.with_org[i].chat_count, exported.with_org[i].call_count >>
                   = << <<2, 0>>, <<1, 0>>, <<0, 1>>, <<1, 1>> >>[i])
           => Indexes(exported.valid)
                = { exported.with_org[i].index : i \in {1, 3, 4} }
        /\ \A dataframe \in AfterFilter :
             \A i \in DOMAIN dataframe : Active(dataframe[i])
        /\ \A pt \in PeriodTypes :
             /\ Len(exported.app_csv[pt]) = Len(exported.period[pt])
             /\ Len(exported.org_csv[pt]) = Len(exported.period[pt])
             /\ \A i \in DOMAIN exported.period[pt] :
                  /\ exported.app_csv[pt][i][3] = exported.period[pt][i].therapist_id
                  /\ exported.org_csv[pt][i][4] = exported.period[pt][i].therapist_id
        /\ Len(exported.all_csv) = Len(exported.alltime)

\* the four rows of the scenario, every one with an organization
C15_Witness ==
    /\ pc = "exported"
    /\ Len(exported.with_org) = 4
    /\ \A i \in 1 .. 4 :
         << exported.with_org[i].chat_count, exported.with_org[i].call_count >>
           = << <<2, 0>>, <<1, 0>>, <<0, 1>>, <<1, 1>> >>[i]
    /\ Len(exported.valid) = 3

\* C16: after the daily de-duplication there is one row per (therapist_id,
\* interaction_date) of the filtered rows, and it is the last of them in
\* input order, so of two retained rows of a therapist on one date with
\* different organization_id the later one survives.
C16_DailyLastWins ==
    InteractionDone =>
        /\ \A i, j \in DOMAIN exported.cleaned :
             (/\ exported.cleaned[i].therapist_id = exported.cleaned[j].therapist_id
              /\ exported.cleaned[i].interaction_date = exported.cleaned[j].interaction_date)
             => i = j
        /\ \A i \in DOMAIN exported.cleaned :
             \E j \in DOMAIN exported.valid : exported.valid[j] = exported.cleaned[i]
        /\ \A j \in DOMAIN exported.valid :
             \E i \in DOMAIN exported.cleaned :
               /\ exported.cleaned[i].therapist_id = exported.valid[j].therapist_id
               /\ exported.cleaned[i].interaction_date = exported.valid[j].interaction_date
               /\ exported.cleaned[i].index >= exported.valid[j].index

\* two retained rows of a therapist on one date with different
\* organizations; the later one is in the cleaned dataframe
C16_Witness ==
    /\ pc = "exported"
    /\ \E i, j \in DOMAIN exported.valid :
         /\ i < j
         /\ exported.valid[i].therapist_id = exported.valid[j].therapist_id
         /\ exported.valid[i].interaction_date = exported.valid[j].interaction_date
         /\ exported.valid[i].organization_id # exported.valid[j].organization_id
         /\ \E c \in DOMAIN exported.cleaned : exported.cleaned[c] = exported.valid[j]
         /\ \A c \in DOMAIN exported.cleaned : exported.cleaned[c] # exported.valid[i]

\* two dates lie in the same week (Monday to Sunday), month or year;
\* ordinal 1 is a Monday
SameBucket(pt, d1, d2) ==
    IF pt = "weekly" THEN (ToOrdinal(d1) - 1) \div 7 = (ToOrdinal(d2) - 1) \div 7
    ELSE IF pt = "monthly" THEN d1.year = d2.year /\ d1.month = d2.month
    ELSE d1.year = d2.year

\* the rows of a dataframe with their all-time and period columns left out
Plain(row) ==
    [index |-> row.index, therapist_id |-> row.therapist_id,
     interaction_date |-> row.interaction_date, chat_count |-> row.chat_count,
     call_count |-> row.call_count, organization_id |-> row.organization_id]

\* C17: for every granularity the exported set has one row per
\* (therapist_id, period) of the daily de-duplicated rows, the period being
\* the week, month or year that contains interaction_date, and the row is
\* the last in input order of that therapist's rows in that period.
C17_PeriodLastWins ==
    InteractionDone =>
        \A pt \in PeriodTypes :
            LET dataframe == exported.period[pt]
            IN /\ \A i, j \in DOMAIN dataframe :
                    (/\ dataframe[i].therapist_id = dataframe[j].therapist_id
                     /\ SameBucket(pt, dataframe[i].interaction_date,
                                       dataframe[j].interaction_date))
                    => i = j
               /\ \A i, j \in DOMAIN dataframe :
                    (dataframe[i].period = dataframe[j].period)
                      <=> SameBucket(pt, dataframe[i].interaction_date,
                                         dataframe[j].interaction_date)
               /\ \A i \in DOMAIN dataframe :
                    \E j \in DOMAIN exported.cleaned :
                      exported.cleaned[j] = Plain(dataframe[i])
               /\ \A j \in DOMAIN exported.cleaned :
                    \E i \in DOMAIN dataframe :
                      /\ dataframe[i].therapist_id = exported.cleaned[j].therapist_id
                      /\ SameBucket(pt, dataframe[i].interaction_date,
                                        exported.cleaned[j].interaction_date)
                      /\ dataframe[i].index >= exported.cleaned[j].index
               /\ \A i, j \in DOMAIN exported.app_csv[pt] :
                    (/\ exported.app_csv[pt][i][1] = exported.app_csv[pt][j][1]
                     /\ exported.app_csv[pt][i][3] = exported.app_csv[pt][j][3])
                    => i = j
               /\ \A i, j \in DOMAIN exported.org_csv[pt] :
                    (/\ exported.org_csv[pt][i][1] = exported.org_csv[pt][j][1]
                     /\ exported.org_csv[pt][i][4] = exported.org_csv[pt][j][4])
                    => i = j

\* a therapist's rows of two dates of one week: the later row in input
\* order has the earlier date and is the one in the weekly set, and both
\* rows are in the monthly set
C17_Witness ==
    /\ pc = "exported"
    /\ \E i, j \in DOMAIN exported.cleaned :
         /\ i < j
         /\ exported.cleaned[i].therapist_id = exported.cleaned[j].therapist_id
         /\ DateLT(exported.cleaned[j].interaction_date, exported.cleaned[i].interaction_date)
         /\ \E w \in DOMAIN exported.period["weekly"] :
              Plain(exported.period["weekly"][w]) = exported.cleaned[j]
         /\ \A w \in DOMAIN exported.period["weekly"] :
              Plain(exported.period["weekly"][w]) # exported.cleaned[i]
         /\ \E m \in DOMAIN exported.period["monthly"] :
              Plain(exported.period["monthly"][m]) = exported.cleaned[i]
         /\ \E m \in DOMAIN exported.period["monthly"] :
              Plain(exported.period["monthly"][m]) = exported.cleaned[j]

\* C18: rows without an organization id are dropped without an error: after
\* the cleaning step of the therapist run and of the interaction run no row
\* has a null organization_id, every row with an organization_id is still
\* there, and the run goes on to its export.
C18_DroppedSilently ==
    /\ InteractionDone =>
         /\ \A i \in DOMAIN exported.with_org :
              exported.with_org[i].organization_id # NA
         /\ Indexes(exported.with_org)
              = { interaction[i].index : i \in { j \in DOMAIN interaction :
                                                   interaction[j].organization_id # NA } }
    /\ pc \in {"therapist_exported", "therapist_failed"} =>
         /\ \A i \in DOMAIN therapist_input.cleaned :
              therapist_input.cleaned[i].organization_id # NA
         /\ Range(therapist_input.cleaned)
              = { therapist[i] : i \in { j \in DOMAIN therapist :
                                           therapist[j].organization_id # NA } }
         /\ (\E i \in DOMAIN therapist : therapist[i].organization_id = NA)
              => pc = "therapist_exported"
\* the claim's malformed table: no data rows, or a first line whose columns
\* are not the expected ones
Malformed(data) ==
    \/ Len(data) < 2
    \/ Range(data[1]) # Range(ExpectedHeaders)

\* C19: when the collected interaction table has no data rows (an empty
\* file, or a header line only) or its header does not match the expected
\* columns, collect_data and the cleaner run end in a ValueError: neither
\* of them completes on such a table.
C19_MalformedAborts ==
    pc \in {"cleaner_collected", "cleaner_done"} => ~ Malformed(cleaner.disk)

\* the content of a complete download of the response
Complete(response) == SelectSeq(response, LAMBDA chunk : chunk # "")

\* C20: after a failure while the file is being written, the file is
\* missing, or holds its complete previous content, or holds the complete
\* new content.
C20_WholeFile ==
    pc = "download_failed" =>
        download.file \in { Missing, download.previous, Complete(download.response) }
\* a row of the collected table that counts as an interaction of its
\* therapist: it has an organization and enough activity
Qualifying(row) == row.organization_id # NA /\ Active(row)

\* C21: for every granularity, a (therapist_id, period) pair is in the
\* exported set, once, iff the therapist has a row dated in that period
\* with an organization_id and with chat_count > 1 or call_count >= 1,
\* also when the therapist's last row of that date or period does not
\* qualify.
C21_ActiveIffQualifying ==
    InteractionDone =>
        \A pt \in PeriodTypes :
            LET dataframe == exported.period[pt]
            IN /\ \A r \in DOMAIN interaction :
                    Cardinality({ i \in DOMAIN dataframe :
                        /\ dataframe[i].therapist_id = interaction[r].therapist_id
                        /\ SameBucket(pt, dataframe[i].interaction_date,
                                          interaction[r].interaction_date) })
                    = IF \E q \in DOMAIN interaction :
                           /\ Qualifying(interaction[q])
                           /\ interaction[q].therapist_id = interaction[r].therapist_id
                           /\ SameBucket(pt, interaction[q].interaction_date,
                                             interaction[r].interaction_date)
                      THEN 1 ELSE 0
               /\ \A i \in DOMAIN dataframe :
                    \E r \in DOMAIN interaction : Plain(dataframe[i]) = interaction[r]
               /\ Len(exported.app_csv[pt]) = Len(dataframe)
               /\ Len(exported.org_csv[pt]) = Len(dataframe)
               /\ \A i \in DOMAIN dataframe :
                    /\ exported.app_csv[pt][i][1] = dataframe[i].period
                    /\ exported.app_csv[pt][i][3] = dataframe[i].therapist_id
                    /\ exported.org_csv[pt][i][1] = dataframe[i].period
                    /\ exported.org_csv[pt][i][4] = dataframe[i].therapist_id

\* a therapist's last row of a date has an organization but too little
\* activity, an earlier row of that date qualifies, and the therapist is in
\* the weekly set with that earlier row
C21_Witness ==
    /\ pc = "exported"
    /\ \E q, l \in DOMAIN interaction :
         /\ q < l
         /\ interaction[q].therapist_id = interaction[l].therapist_id
         /\ interaction[q].interaction_date = interaction[l].interaction_date
         /\ Qualifying(interaction[q])
         /\ interaction[l].organization_id # NA /\ ~ Active(interaction[l])
         /\ \A k \in DOMAIN interaction :
              (k > l) => interaction[k].therapist_id # interaction[l].therapist_id
         /\ \E i \in DOMAIN exported.period["weekly"] :
              Plain(exported.period["weekly"][i]) = interaction[q]
\* the filtered rows that no later filtered row of the same therapist and
\* the same period follows, in input order
LastOfPeriod(pt) ==
    Pick(exported.valid,
         { i \in DOMAIN exported.valid :
             \A j \in DOMAIN exported.valid :
                 (/\ j > i
                  /\ exported.valid[j].therapist_id = exported.valid[i].therapist_id)
                 => ~ SameBucket(pt, exported.valid[j].interaction_date,
                                     exported.valid[i].interaction_date) })

\* C28: for every granularity the two keep-last passes, by (therapist_id,
\* interaction_date) and then by (therapist_id, period), leave the rows a
\* single keep-last pass by (therapist_id, period) over the filtered rows
\* leaves: the therapist's last qualifying row of each period.
C28_TwoPassesAsOne ==
    InteractionDone =>
        \A pt \in PeriodTypes :
            [ i \in DOMAIN exported.period[pt] |-> Plain(exported.period[pt][i]) ]
              = LastOfPeriod(pt)

\* both passes drop a row of the weekly set
C28_Witness ==
    /\ pc = "exported"
    /\ Len(exported.valid) > Len(exported.cleaned)
    /\ Len(exported.cleaned) > Len(exported.period["weekly"])
    /\ Len(exported.period["weekly"]) > 0
\* C29: for a before-period count above 0 and any count within the period,
\* the rounded churn rate and the rounded retention rate add up to 1.00,
\* also when (before - within) / before lies halfway between two hundredths.
C29_Complementary ==
    (pc = "returned" /\ before > 0) =>
        rate.churn_rate + rate.retention_rate = 100
\* the value the carry-forward stage wrote in a column of a line of the
\* input-rate file
Written(line, column) == line[IndexOf(ExportColumns(scope), column)]

\* C23: for both scopes and the three granularities the rate stage takes
\* active_ther and active_ther_b_period of a row from the columns the
\* carry-forward stage wrote them in: churn and retention of every row are
\* those of (active_ther_b_period, active_ther) as written.
C23_SameColumnLayout ==
    pc = "rated" =>
        /\ Len(output_rate) = Len(input_rate_csv)
        /\ \A i \in DOMAIN output_rate :
             /\ output_rate[i].churn_rate
                  = _get_churn_rate(Written(input_rate_csv[i], "active_ther_b_period"),
                                    Written(input_rate_csv[i], "active_ther")).value
             /\ output_rate[i].retention_rate
                  = _get_retention_rate(Written(input_rate_csv[i], "active_ther_b_period"),
                                        Written(input_rate_csv[i], "active_ther")).value
\* C24: the app-level set_total_thers_before_period returns a copy: after
\* the call the dataframe it was given holds the before-period values it
\* held before the call, as with the per-organization method.
C24_ArgumentUnchanged ==
    CarryDone => argument = LoadDataframe(file, period_type)
\* the organization and count columns of the lines of a rate input file
Counts(lines) == [ i \in DOMAIN lines |-> SubSeq(lines[i], 3, 8) ]

\* C22: the shift-based revision gives a record whose preceding record of
\* the same organization is not exactly one period earlier the
\* before-period values 0 and 0: on every input its before-period values
\* are those of the gap-checking revision.
C22_ShiftAsGapCheck ==
    pc = "shifted" =>
        Counts(org_rate_csv)
          = Counts(ToCsv(Org_set_total_thers_before_period(
                             LoadDataframe(file, period_type), period_type),
                         OrgColumns))
\* first and last calendar day of the month or year a period key names
FirstDay(key, pt) ==
    IF pt = "monthly" THEN Date(key.year, key.month, 1) ELSE Date(key.year, 1, 1)

LastDay(key, pt) ==
    IF pt = "monthly" THEN Date(key.year, key.month, MonthRange(key.year, key.month))
    ELSE Date(key.year, 12, 31)

\* (period_start, period_end) of the lines of a rate input file
DatePeriods(lines) == { << lines[i][1], lines[i][2] >> : i \in DOMAIN lines }

\* the period_end values of keys that follow one another are one unit
\* apart for the gap classifier
ConsecutiveEndsOneApart(lines, pt) ==
    \A i, j \in DOMAIN lines :
        GapUnits(pt, lines[i][1], lines[j][1]) = 1
        => OneUnitDiff(pt, lines[i][2], lines[j][2])

\* C30: in every revision a yearly key Y is expanded to Y-01-01 and
\* Y-12-31 and a monthly key to the first and the last calendar day of the
\* month, so the period_end values of consecutive keys are classified as
\* one year (month) apart.
C30_WholePeriod ==
    period_type \in {"monthly", "yearly"} =>
        /\ CarryDone =>
             /\ DatePeriods(input_rate_csv)
                  = { << FirstDay(file[i].period, period_type),
                         LastDay(file[i].period, period_type) >> : i \in DOMAIN file }
             /\ ConsecutiveEndsOneApart(input_rate_csv, period_type)
        /\ pc = "shifted" =>
             /\ DatePeriods(org_rate_csv)
                  = { << FirstDay(file[i].period, period_type),
                         LastDay(file[i].period, period_type) >> : i \in DOMAIN file }
             /\ ConsecutiveEndsOneApart(org_rate_csv, period_type)
\* the payload of a by-app file: per row, an active entry with the row's
\* active count, then an inactive entry with its inactive count
TwoPerRow(payload, dataframe) ==
    /\ Len(payload) = 2 * Len(dataframe)
    /\ \A i \in DOMAIN dataframe :
         /\ payload[2 * i - 1].is_active
         /\ payload[2 * i - 1].value = dataframe[i].active_ther
         /\ ~ payload[2 * i].is_active
         /\ payload[2 * i].value = dataframe[i].inactive_ther

\* C25: _sync_back_nd_alltime_data hands api.upsert, for an all-time file of
\* n >= 1 rows, one active and one inactive entry per row: 2n entries,
\* never the empty list.
C25_AllTimePayload ==
    sync.upserted["alltime"] # << >> =>
        /\ sync.upserted["alltime"][1] # << >>
        /\ TwoPerRow(sync.upserted["alltime"][1], sync.file["alltime"])
\* C26: a read of data before any collect_data() has completed fails with
\* an assertion error and returns no dataframe; after a completed
\* collect_data() it returns the dataframe loaded by the most recent
\* collect_data() that completed; a collect_data() that fails on a fresh
\* object leaves data unavailable.
C26_CollectBeforeRead ==
    /\ pc = "operation_read" =>
         IF operation.completed = 0
         THEN operation.read = [raised |-> "AssertionError", value |-> NoDdf]
         ELSE operation.read = [raised |-> "", value |-> operation.loaded]
    /\ (pc = "operation_failed" /\ operation.completed = 0) =>
         Operation_data(operation).raised = "AssertionError"

\* a read after a download that broke following a completed collect_data()
C26_Witness ==
    /\ pc = "operation_read"
    /\ operation.completed = 1
    /\ operation.calls = 3
    /\ operation.read.value.rows = << "a" >>
    /\ operation.disk = << "header" >>
\* requests of one kind made during the construction
Requests(kind) ==
    Cardinality({ i \in DOMAIN client.requests : client.requests[i] = kind })

\* the token file held a non-empty token and the backend accepted it
TokenValidates ==
    /\ Truthy(_read_access_token(client.before, client.env))
    /\ client.env.validation = "ok"

\* the token file was absent or empty, or its token was rejected with an
\* HTTP error
TokenUnusable ==
    \/ client.before = Missing
    \/ client.before = << "" >>
    \/ /\ Truthy(_read_access_token(client.before, client.env))
       /\ client.env.validation = "HTTPError"

\* C27: outside developer mode, a token of the file that validates is
\* returned with no login and no rewrite of the file; an absent, empty or
\* rejected token leads to exactly one login whose token is written to
\* the file; when the call returns, the returned token is the content of
\* the file. In developer mode nothing is read, validated or requested.
C27_AccessToken ==
    /\ (pc = "client_made" /\ ~ client.DEV_MODE) =>
         /\ TokenValidates =>
              /\ client.returned = client.before
              /\ Requests("login") = 0
              /\ client.writes = 0
              /\ client.file = client.before
         /\ TokenUnusable =>
              /\ Requests("login") = 1
              /\ client.writes = 1
              /\ client.file = client.env.token
         /\ client.returned = client.file
    /\ (pc \in {"client_made", "client_failed"} /\ ~ client.DEV_MODE) =>
         /\ TokenValidates => Requests("login") = 0 /\ client.writes = 0
         /\ TokenUnusable => Requests("login") = 1
    /\ (pc \in {"client_made", "client_failed"} /\ client.DEV_MODE) =>
         /\ client.requests = << >>
         /\ client.reads = 0
         /\ client.writes = 0
         /\ client.returned = None

\* a second client finds the token the first one wrote, and it validates
C27_Witness ==
    /\ pc = "client_made"
    /\ ~ client.DEV_MODE
    /\ client.made = 2
    /\ TokenValidates
    /\ client.returned = << "t2" >>
    /\ client.requests = << "validate" >>

\* a rejected token is replaced by the token of one login
C27_WitnessLogin ==
    /\ pc = "client_made"
    /\ ~ client.DEV_MODE
    /\ client.before = << "t1" >>
    /\ client.requests = << "validate", "login" >>
    /\ client.file = << "t2" >>
====
